---- MODULE Spec2Model ----
(***************************************************************************)
(* Model of the dymium-auth-plugin repository.                             *)
(*                                                                         *)
(*  - the reasoning-stream handler of the GhostLLM implementation guide    *)
(*    (src/unnamed/part_000, "New code flow" and its helper functions);    *)
(*  - the process-wide session tracker of the OpenCode plugin              *)
(*    (src/index.ts, sessionState / loader / event).                       *)
(***************************************************************************)
EXTENDS Integers, Sequences, FiniteSets, TLC

\* ------------------------------------------------------------------ bounds
MaxFindings == 1       \* largest len(piiMap) explored
NumIds      == 2       \* how many distinct values generateChunkID() can return
MaxUnix     == 1       \* time.Now().Unix() ranges over 0..MaxUnix
MaxLead     == 1       \* the multi-byte character starts 1..MaxLead bytes before a cut
NumSessions == 2       \* OpenCode sessions whose events reach the plugin
MaxEvents   == 3       \* loader calls and events handled by the tracker
MaxRequests == 1       \* API requests OpenCode hands to the plugin's fetch
MaxLoads    == 1       \* calls of the auth loader

\* -------------------------------------------------------- program constants
ChunkSize == 50        \* sendContentEvent: "i += 50"

\* ------------------------------------------------------------------- text
\* A Go string is a byte sequence.  A content string is written here as a
\* sequence of characters; Width gives the length of a character's UTF-8
\* encoding, and a byte is the pair (character, position inside it).
Ascii    == {"a", "b"}
Multi    == {"e4"}                   \* a 4-byte character (the 👋 of the guide's example answer)
Replacement == "ufffd"                \* U+FFFD, what json.Marshal writes for an invalid byte

Width(c) == IF c = "e4" THEN 4 ELSE 1

RECURSIVE Utf8Bytes(_)
Utf8Bytes(s) ==
    IF s = <<>> THEN <<>>
    ELSE [k \in 1..Width(Head(s)) |-> [ch |-> Head(s), k |-> k]] \o Utf8Bytes(Tail(s))

\* b[from .. from+n-1] is the complete encoding of one character
CompleteAt(b, from) ==
    /\ b[from].k = 1
    /\ from + Width(b[from].ch) - 1 <= Len(b)
    /\ \A j \in 1..(Width(b[from].ch) - 1) :
          /\ b[from + j].ch = b[from].ch
          /\ b[from + j].k = j + 1

\* json.Marshal of a Go string followed by the consumer's JSON parse: valid
\* characters survive, every byte that is not part of a valid encoding
\* becomes one U+FFFD.
RECURSIVE jsonMarshal(_)
jsonMarshal(b) ==
    IF b = <<>> THEN <<>>
    ELSE IF CompleteAt(b, 1)
         THEN <<b[1].ch>> \o jsonMarshal(SubSeq(b, Width(b[1].ch) + 1, Len(b)))
         ELSE <<Replacement>> \o jsonMarshal(Tail(b))

min(a, b) == IF a < b THEN a ELSE b

\* content[i:end] of the Go loop (i is a 0-based byte offset)
Slice(b, i) == SubSeq(b, i + 1, min(i + ChunkSize, Len(b)))

RECURSIVE Pad(_)
Pad(n) == IF n = 0 THEN <<>> ELSE Pad(n - 1) \o << IF n % 2 = 1 THEN "a" ELSE "b" >>

\* The answers explored: the empty answer, a short ASCII answer, and answers
\* with one multi-byte character that starts shortly before the first cut.
Contents ==
    {<<>>, Pad(3)}
    \cup { Pad(ChunkSize - l) \o <<m>> : l \in 1..MaxLead, m \in Multi }

\* ----------------------------------------------------------------- frames
Ids == 1..NumIds

NoPhase == "none"

\* One "data: ..." line written to the response.  line = "json" is a chunk
\* object, line = "[DONE]" the sentinel.
Chunk(id, created, hasReasoning, phase, count, hasContent, content, finish) ==
    [ line |-> "json", id |-> id, created |-> created,
      has_reasoning |-> hasReasoning, phase |-> phase, count |-> count,
      has_content |-> hasContent, content |-> content,
      finish_reason |-> finish ]

ReasoningChunk(id, created, phase, count) ==
    Chunk(id, created, TRUE, phase, count, FALSE, <<>>, "null")

ContentChunk_mut(id, created, text) ==
    Chunk(id, created, TRUE, "Restoring", 0, TRUE, text, "null")

ContentChunk(id, created, text) ==
    Chunk(id, created, FALSE, NoPhase, 0, TRUE, text, "null")

DoneChunk_mut(id, created) ==
    Chunk(id, created, FALSE, NoPhase, 0, FALSE, <<>>, "null")

DoneChunk(id, created) ==
    Chunk(id, created, FALSE, NoPhase, 0, FALSE, <<>>, "stop")

Sentinel ==
    [ line |-> "[DONE]", id |-> 0, created |-> 0,
      has_reasoning |-> FALSE, phase |-> NoPhase, count |-> 0,
      has_content |-> FALSE, content |-> <<>>, finish_reason |-> "null" ]

VARIABLES
    pc,            \* position of the handler in the code flow
    headers,       \* response headers set so far
    out,           \* lines written to w, in order
    wrote,         \* wrote[k]: did the k-th write reach the peer
    peer,          \* "connected" | "gone"
    unixNow,       \* time.Now().Unix()
    piiCount,      \* len(piiMap), -1 before obfuscate returned
    callErr,       \* err of CallCompletion
    piiMap,        \* piiMap returned by obfuscate: the original values it replaced
    errText,       \* err.Error() of CallCompletion, "" when err is nil
    response,      \* response of CallCompletion: "none" (not called) | "ok" | "zero" | "nil"
    finalContent,  \* deobfuscatedContent
    i,             \* loop variable of sendContentEvent
    calls,         \* collaborator calls made, each with the number of lines written before it
    req,           \* the request: stream flag, config.DetectPII, does w implement http.Flusher
    mode,          \* how the request is served
    body,          \* content of the complete (non-streamed) response
    sessionState,  \* the plugin's module-level tracker
    dateNow,       \* Date.now()
    logLines,      \* lines appended to the debug log by the tracker
    lastEvent,     \* the loader call or event handled by the last step
    handled,       \* number of loader calls and events handled so far
    own,           \* own[s]: the tracker as the calls and events of session s alone leave it
    version,       \* which plugin source is loaded: "none" | "http11" | "wrapper"
    tokenFile,     \* ~/.local/share/dymium-provider/token
    authJson,      \* ~/.local/share/opencode/auth.json
    apiKey,        \* apiKey returned by the last loader call
    loads,         \* number of loader calls
    sent,          \* requests handed to the transport, in order
    thrown         \* number of fetch calls that ended in an error

modeVars    == <<req, mode, body>>
streamVars  == <<pc, headers, out, wrote, peer, unixNow, piiCount, piiMap, callErr, errText,
                 response, finalContent, i, calls, req, mode, body>>
trackerVars == <<sessionState, dateNow, logLines, lastEvent, handled, own>>
authVars    == <<version, tokenFile, authJson, apiKey, loads, sent, thrown>>
vars == <<pc, headers, out, wrote, peer, unixNow, piiCount, piiMap, callErr, errText,
          response, finalContent, i, calls, req, mode, body,
          sessionState, dateNow, logLines, lastEvent, handled, own,
          version, tokenFile, authJson, apiKey, loads, sent, thrown>>

\* ------------------------------------------------------- the stream handler
SSEHeaders == { <<"Content-Type", "text/event-stream">>,
                <<"Cache-Control", "no-cache">>,
                <<"Connection", "keep-alive">> }

\* The values one call of generateChunkID() may return.  Ids are opaque and
\* numbered in the order of their first use: a call returns the id of the
\* previous call (a generator keyed on the request or on the clock) or one
\* not returned before (a counter, a random id).
UsedIds == { out[k].id : k \in { j \in 1..Len(out) : out[j].line = "json" } }

generateChunkID ==
    { id \in Ids : Cardinality(UsedIds) <= id /\ id <= Cardinality(UsedIds) + 1 }

\* fmt.Fprintf(w, ...) + flusher.Flush(): the error of the write is dropped
Write(lines) ==
    /\ out' = out \o lines
    /\ wrote' = wrote \o [k \in 1..Len(lines) |-> peer = "connected"]

Call(op) == calls' = Append(calls, [op |-> op, at |-> Len(out)])

\* sendReasoningEvent given err.Error() as the message once the call failed
sendReasoningEvent_mut(phase, count) ==
    \E id \in generateChunkID :
        Write(<<ReasoningChunk(id, unixNow, IF errText # "" THEN errText ELSE phase, count)>>)

sendReasoningEvent(phase, count) ==
    \E id \in generateChunkID : Write(<<ReasoningChunk(id, unixNow, phase, count)>>)

\* one iteration of the loop of sendContentEvent
sendContentEvent ==
    /\ pc = "loop"
    /\ \E id \in generateChunkID :
          Write(<<ContentChunk(id, unixNow, jsonMarshal(Slice(Utf8Bytes(finalContent), i)))>>)
    /\ i' = i + ChunkSize
    /\ pc' = IF i + ChunkSize < Len(Utf8Bytes(finalContent)) THEN "loop" ELSE "s8"
    /\ UNCHANGED modeVars
    /\ UNCHANGED <<headers, peer, unixNow, piiCount, piiMap, callErr, errText, response,
                   finalContent, calls>>

sendDoneEvent ==
    /\ pc = "s8"
    /\ \E id \in generateChunkID : Write(<<DoneChunk(id, unixNow), Sentinel>>)
    /\ pc' = "done"
    /\ UNCHANGED modeVars
    /\ UNCHANGED <<headers, peer, unixNow, piiCount, piiMap, callErr, errText, response,
                   finalContent, i, calls>>

\* the pc values at which the SSE response is open
StreamingPcs == {"s2", "s3", "s4", "s5", "calling", "s6", "s7", "loop", "s8", "proxy"}

Requests == [stream : BOOLEAN, detectPII : BOOLEAN, flusher : BOOLEAN]

NoBody == <<"none">>

\* "if !request.Stream": the complete response as before; otherwise the
\* streaming handler is entered
Dispatch ==
    /\ pc = "recv"
    /\ \E r \in Requests :
          /\ req' = r
          /\ pc' = IF r.stream THEN "start" ELSE "current"
          /\ mode' = IF r.stream THEN "pending" ELSE "BufferedResponse"
    /\ UNCHANGED <<headers, out, wrote, peer, unixNow, piiCount, piiMap, callErr, errText, response,
                   finalContent, i, calls, body>>

\* step 1: headers, then the unchecked type assertion w.(http.Flusher);
\* with config.DetectPII off the upstream stream is proxied instead of
\* the reasoning events
StartSSE ==
    /\ pc = "start"
    /\ headers' = SSEHeaders
    /\ pc' = IF ~req.flusher THEN "panicked"
             ELSE IF req.detectPII THEN "s2" ELSE "proxy"
    /\ mode' = IF ~req.flusher THEN "Error"
               ELSE IF req.detectPII THEN "ReasoningStream" ELSE "PassthroughStream"
    /\ UNCHANGED <<out, wrote, peer, unixNow, piiCount, piiMap, callErr, errText, response,
                   finalContent, i, calls, req, body>>

\* Option A of the guide: return proxyStreamingResponse(w, upstreamResponse)
proxyStreamingResponse ==
    /\ pc = "proxy"
    /\ pc' = "proxied"
    /\ Call("proxyStreamingResponse")
    /\ UNCHANGED <<headers, out, wrote, peer, unixNow, piiCount, piiMap, callErr, errText, response,
                   finalContent, i, req, mode, body>>

\* the content field of the complete response: the whole answer through
\* one json.Marshal
CompleteBody(c) == jsonMarshal(Utf8Bytes(c))

\* err.Error() of a failed upstream call
ErrTexts == {"context deadline exceeded", "dial tcp 10.0.0.7:443: connection refused"}

\* "Current code flow": the upstream call, then wait for the full response
CurrentCallCompletion ==
    /\ pc = "current"
    /\ \E r \in {"ok", "nil"} :
          /\ response' = r
          /\ callErr' = (r # "ok")
          /\ \E e \in (IF r = "ok" THEN {""} ELSE ErrTexts) : errText' = e
          /\ pc' = IF r = "ok" THEN "current2" ELSE "failed"
    /\ Call("CallCompletion")
    /\ UNCHANGED <<headers, out, wrote, peer, unixNow, piiCount, piiMap, finalContent, i,
                   req, mode, body>>

\* "Current code flow": de-obfuscate, send to client
CurrentRespond ==
    /\ pc = "current2"
    /\ \E c \in Contents :
          /\ finalContent' = c
          /\ body' = CompleteBody(c)
    /\ Call("deobfuscate")
    /\ pc' = "returned"
    /\ UNCHANGED <<headers, out, wrote, peer, unixNow, piiCount, piiMap, callErr, errText, response,
                   i, req, mode>>

\* step 2
SendSecuring ==
    /\ pc = "s2"
    /\ sendReasoningEvent("Securing", 0)
    /\ pc' = "s3"
    /\ UNCHANGED modeVars
    /\ UNCHANGED <<headers, peer, unixNow, piiCount, piiMap, callErr, errText, response,
                   finalContent, i, calls>>

\* what obfuscate may return for n findings: the first original value varies
PiiValues == {"John Smith", "jsmith@example.com"}

PiiMaps(n) ==
    IF n = 0 THEN { <<>> }
    ELSE { [k \in 1..n |-> IF k = 1 THEN v ELSE "555-0100"] : v \in PiiValues }

Obfuscate_mut ==
    /\ pc = "s3"
    /\ \E n \in 0..MaxFindings : \E m \in PiiMaps(n) :
          /\ piiCount' = n
          /\ piiMap' = m
          /\ IF n >= 0 THEN sendReasoningEvent("Protected", n)
                       ELSE UNCHANGED <<out, wrote>>
    /\ Call("obfuscate")
    /\ pc' = "s4"
    /\ UNCHANGED modeVars
    /\ UNCHANGED <<headers, peer, unixNow, callErr, errText, response, finalContent, i>>

\* step 3: obfuscate, then the Protected event when len(piiMap) > 0
Obfuscate ==
    /\ pc = "s3"
    /\ \E n \in 0..MaxFindings : \E m \in PiiMaps(n) :
          /\ piiCount' = n
          /\ piiMap' = m
          /\ IF n > 0 THEN sendReasoningEvent("Protected", n)
                      ELSE UNCHANGED <<out, wrote>>
    /\ Call("obfuscate")
    /\ pc' = "s4"
    /\ UNCHANGED modeVars
    /\ UNCHANGED <<headers, peer, unixNow, callErr, errText, response, finalContent, i>>

SendWaiting_mut ==
    /\ pc = "s4"
    /\ sendReasoningEvent("Restoring", 0)
    /\ pc' = "s5"
    /\ UNCHANGED modeVars
    /\ UNCHANGED <<headers, peer, unixNow, piiCount, piiMap, callErr, errText, response,
                   finalContent, i, calls>>

\* step 4
SendWaiting ==
    /\ pc = "s4"
    /\ sendReasoningEvent("Waiting", 0)
    /\ pc' = "s5"
    /\ UNCHANGED modeVars
    /\ UNCHANGED <<headers, peer, unixNow, piiCount, piiMap, callErr, errText, response,
                   finalContent, i, calls>>

\* step 5: client.CallCompletion(ctx, obfuscatedRequest) is invoked; the
\* handler blocks until it returns
CallCompletion ==
    /\ pc = "s5"
    /\ Call("CallCompletion")
    /\ pc' = "calling"
    /\ UNCHANGED modeVars
    /\ UNCHANGED <<headers, out, wrote, peer, unixNow, piiCount, piiMap, callErr, errText,
                   response, finalContent, i>>

\* step 5: response, err := ... returns; err is never read afterwards.  On
\* failure the response is either nil or a zero value.
CallCompletionReturns ==
    /\ pc = "calling"
    /\ \E r \in {"ok", "zero", "nil"} :
          /\ response' = r
          /\ callErr' = (r # "ok")
          /\ \E e \in (IF r = "ok" THEN {""} ELSE ErrTexts) : errText' = e
    /\ pc' = "s6"
    /\ UNCHANGED modeVars
    /\ UNCHANGED <<headers, out, wrote, peer, unixNow, piiCount, piiMap,
                   finalContent, i, calls>>

SendRestoring_mut ==
    /\ pc = "s6"
    /\ pc' = "s7"
    /\ UNCHANGED modeVars
    /\ UNCHANGED <<headers, out, wrote, peer, unixNow, piiCount, piiMap, callErr, errText,
                   response, finalContent, i, calls>>

\* step 6
SendRestoring ==
    /\ pc = "s6"
    /\ sendReasoningEvent("Restoring", 0)
    /\ pc' = "s7"
    /\ UNCHANGED modeVars
    /\ UNCHANGED <<headers, peer, unixNow, piiCount, piiMap, callErr, errText, response,
                   finalContent, i, calls>>

Deobfuscate_mut ==
    /\ pc = "s7"
    /\ IF response = "nil"
       THEN /\ pc' = "panicked"
            /\ UNCHANGED <<finalContent, i, calls>>
       ELSE /\ \E c \in (IF response = "ok" THEN Contents ELSE {<<>>}) :
                  /\ finalContent' = c
                  /\ pc' = "loop"
            /\ i' = 0
            /\ Call("deobfuscate")
    /\ UNCHANGED modeVars
    /\ UNCHANGED <<headers, out, wrote, peer, unixNow, piiCount, piiMap, callErr, errText, response>>

\* step 7: deobfuscate(response.Content, piiMap), then sendContentEvent is
\* entered; reading response.Content of a nil response panics.
Deobfuscate ==
    /\ pc = "s7"
    /\ IF response = "nil"
       THEN /\ pc' = "panicked"
            /\ UNCHANGED <<finalContent, i, calls>>
       ELSE /\ \E c \in (IF response = "ok" THEN Contents ELSE {<<>>}) :
                  /\ finalContent' = c
                  /\ pc' = IF 0 < Len(Utf8Bytes(c)) THEN "loop" ELSE "s8"
            /\ i' = 0
            /\ Call("deobfuscate")
    /\ UNCHANGED modeVars
    /\ UNCHANGED <<headers, out, wrote, peer, unixNow, piiCount, piiMap, callErr, errText, response>>

\* the client goes away while the handler is running
PeerDisconnect ==
    /\ pc \in StreamingPcs
    /\ peer = "connected"
    /\ peer' = "gone"
    /\ UNCHANGED modeVars
    /\ UNCHANGED <<pc, headers, out, wrote, unixNow, piiCount, piiMap, callErr, errText, response,
                   finalContent, i, calls>>

\* a second passes
TickUnix ==
    /\ pc \in StreamingPcs
    /\ unixNow < MaxUnix
    /\ unixNow' = unixNow + 1
    /\ UNCHANGED modeVars
    /\ UNCHANGED <<pc, headers, out, wrote, peer, piiCount, piiMap, callErr, errText, response,
                   finalContent, i, calls>>

\* ------------------------------------------------------ the session tracker
Sessions == 1..NumSessions

Null == -1                     \* requestStartTime: null

\* the initial value of the module-level sessionState
InitialSessionState ==
    [requestStartTime |-> Null, lastStatus |-> "null", isProcessing |-> FALSE]

\* a test that takes null for a number
Truthy_mut(x) == x # 0

\* JavaScript truthiness of a number | null
Truthy(x) == x # Null /\ x # 0

NoDuration == [unit |-> "none", n |-> 0, rem |-> 0]

formatDuration(ms) ==
    IF ms < 1000 THEN [unit |-> "ms", n |-> ms, rem |-> 0]
    ELSE IF ms \div 1000 < 60 THEN [unit |-> "s", n |-> ms \div 1000, rem |-> 0]
    ELSE [unit |-> "m", n |-> (ms \div 1000) \div 60, rem |-> (ms \div 1000) % 60]

LogLine(msg, text, dur) == [msg |-> msg, text |-> text, dur |-> dur]

\* what Date.now() returns at the next call: time does not run backwards
Elapsed == {999, 60000}

\* the events delivered to the plugin: type, properties.status, properties.part.type
EventInputs ==
    { [type |-> "session.status", status |-> st, partType |-> ""] : st \in {"processing", ""} }
    \cup { [type |-> t, status |-> "", partType |-> ""] :
              t \in {"session.idle", "session.error", "session.created",
                     "session.updated", "file.edited"} }
    \cup { [type |-> "message.part.updated", status |-> "", partType |-> pt] :
              pt \in {"reasoning", "text"} }

\* loader() without the isProcessing assignment
loader_mut(st, now) ==
    [ st  |-> [requestStartTime |-> now, lastStatus |-> "connecting",
               isProcessing |-> st.isProcessing],
      log |-> << LogLine("Loader called for provider", "", NoDuration) >> ]

\* the body of loader(): the new tracker and the lines it logs
loader(st, now) ==
    [ st  |-> [requestStartTime |-> now, lastStatus |-> "connecting", isProcessing |-> TRUE],
      log |-> << LogLine("Loader called for provider", "", NoDuration) >> ]

\* the body of the event handler: the new tracker and the lines it logs
event(st, now, ev) ==
    CASE ev.type = "session.status" ->
            LET status == IF ev.status # "" THEN ev.status ELSE "unknown"
            IN  [ st  |-> [st EXCEPT !.lastStatus = status],
                  log |-> << LogLine("Session status", status, NoDuration) >> ]
      [] ev.type = "session.idle" ->
            [ st  |-> [requestStartTime |-> IF Truthy(st.requestStartTime)
                                            THEN Null ELSE st.requestStartTime,
                       lastStatus |-> "idle", isProcessing |-> FALSE],
              log |-> IF Truthy(st.requestStartTime)
                      THEN << LogLine("Session completed in", "",
                                      formatDuration(now - st.requestStartTime)) >>
                      ELSE <<>> ]
      [] ev.type = "session.error" ->
            [ st  |-> [requestStartTime |-> IF Truthy(st.requestStartTime)
                                            THEN Null ELSE st.requestStartTime,
                       lastStatus |-> "error", isProcessing |-> FALSE],
              log |-> << LogLine("Session error", "", NoDuration) >>
                      \o IF Truthy(st.requestStartTime)
                         THEN << LogLine("Session failed after", "",
                                         formatDuration(now - st.requestStartTime)) >>
                         ELSE <<>> ]
      [] ev.type = "session.created" ->
            [ st  |-> [requestStartTime |-> now, lastStatus |-> "started",
                       isProcessing |-> TRUE],
              log |-> << LogLine("Session created", "", NoDuration) >> ]
      [] ev.type = "message.part.updated" ->
            [ st  |-> st,
              log |-> IF ev.partType = "reasoning"
                      THEN << LogLine("Reasoning update", "", NoDuration) >>
                      ELSE <<>> ]
      [] OTHER ->
            [ st  |-> st,
              log |-> IF ev.type \in {"session.updated"}
                      THEN << LogLine("Event", ev.type, NoDuration) >>
                      ELSE <<>> ]

\* OpenCode calls the auth loader for a request of session s
Loader ==
    /\ handled < MaxEvents
    /\ handled' = handled + 1
    /\ \E s \in Sessions, d \in Elapsed :
          LET now == dateNow + d
              r   == loader(sessionState, now)
          IN  /\ dateNow' = now
              /\ sessionState' = r.st
              /\ logLines' = logLines \o r.log
              /\ own' = [own EXCEPT ![s] = loader(own[s], now).st]
              /\ lastEvent' = [type |-> "loader", status |-> "", partType |-> "", session |-> s]

\* OpenCode delivers an event of session s
Event ==
    /\ handled < MaxEvents
    /\ handled' = handled + 1
    /\ \E s \in Sessions, d \in Elapsed, ev \in EventInputs :
          LET now == dateNow + d
              r   == event(sessionState, now, ev)
          IN  /\ dateNow' = now
              /\ sessionState' = r.st
              /\ logLines' = logLines \o r.log
              /\ own' = [own EXCEPT ![s] = event(own[s], now, ev).st]
              /\ lastEvent' = [type |-> ev.type, status |-> ev.status,
                                partType |-> ev.partType, session |-> s]

TrackerInit ==
    /\ sessionState = InitialSessionState
    /\ dateNow = 1
    /\ logLines = <<>>
    /\ lastEvent = [type |-> "none", status |-> "", partType |-> "", session |-> 0]
    /\ handled = 0
    /\ own = [s \in Sessions |-> InitialSessionState]

TrackerNext ==
    /\ \/ Loader
       \/ Event
    /\ UNCHANGED streamVars
    /\ UNCHANGED authVars

StreamInit ==
    /\ pc = "recv"
    /\ req = [stream |-> FALSE, detectPII |-> FALSE, flusher |-> FALSE]
    /\ mode = "none"
    /\ body = NoBody
    /\ headers = {}
    /\ out = <<>>
    /\ wrote = <<>>
    /\ peer = "connected"
    /\ unixNow = 0
    /\ piiCount = -1
    /\ callErr = FALSE
    /\ piiMap = <<>>
    /\ errText = ""
    /\ response = "none"
    /\ finalContent = <<>>
    /\ i = 0
    /\ calls = <<>>

StreamNext ==
    /\ \/ Dispatch
       \/ CurrentCallCompletion
       \/ CurrentRespond
       \/ proxyStreamingResponse
       \/ StartSSE
       \/ SendSecuring
       \/ Obfuscate
       \/ SendWaiting
       \/ CallCompletion
       \/ CallCompletionReturns
       \/ SendRestoring
       \/ Deobfuscate
       \/ sendContentEvent
       \/ sendDoneEvent
       \/ PeerDisconnect
       \/ TickUnix
    /\ UNCHANGED trackerVars
    /\ UNCHANGED authVars

\* ------------------------------------------------- token and fetch wrappers
\* Strings are sequences of atoms; " " and "\n" are whitespace.
Whitespace == {" ", "\n"}

RECURSIVE TrimStart(_)
TrimStart(t) ==
    IF t # <<>> /\ Head(t) \in Whitespace THEN TrimStart(Tail(t)) ELSE t

RECURSIVE TrimEnd(_)
TrimEnd(t) ==
    IF t # <<>> /\ t[Len(t)] \in Whitespace THEN TrimEnd(SubSeq(t, 1, Len(t) - 1)) ELSE t

\* String.prototype.trim
Trim(t) == TrimEnd(TrimStart(t))

Missing == <<"ENOENT">>        \* the file does not exist
NoToken == <<>>                \* null (and "", which the code treats alike)

TokenFiles == { Missing, <<"\n">>, <<"t1", "\n">> }

AuthFile(state, key, app) == [state |-> state, key |-> key, app |-> app]

NumberKey == <<"#42">>        \* "key": 42, a JSON number; `${key}` is "42"

\* typeof key === "string"
IsString(key) == key # NumberKey

\* auth.json: missing, not JSON, or { dymium: { key, app } } with key
\* absent (<<>>), blank, a token, or not a string
AuthJsons ==
    { AuthFile("missing", <<>>, ""), AuthFile("unparsable", <<>>, "") }
    \cup { AuthFile("ok", k, "app1") :
               k \in { <<>>, <<" ">>, <<"t2">>, <<" ", "t3">>, NumberKey } }

\* getDymiumToken: auth.dymium.key when auth.json parses and key is truthy
getDymiumToken(aj) ==
    IF aj.state = "ok" /\ aj.key # <<>> THEN aj.key ELSE NoToken

\* resolveToken returning the auth.json key as stored
resolveToken_mut(tf, aj) ==
    IF tf # Missing /\ Trim(tf) # <<>> THEN Trim(tf)
    ELSE IF aj.state = "ok" /\ aj.key # <<>> /\ IsString(aj.key) /\ Trim(aj.key) # <<>>
         THEN aj.key
    ELSE NoToken

\* resolveToken: the trimmed token file, else the trimmed auth.json key
resolveToken(tf, aj) ==
    IF tf # Missing /\ Trim(tf) # <<>> THEN Trim(tf)
    ELSE IF aj.state = "ok" /\ aj.key # <<>> /\ IsString(aj.key) /\ Trim(aj.key) # <<>>
         THEN Trim(aj.key)
    ELSE NoToken

Bearer(token) == <<"Bearer", " ">> \o token

\* header names fold to lower case in Headers and in Node's setHeader
Lower(n) ==
    CASE n \in {"Host", "HOST"}       -> "host"
      [] n \in {"Connection"}         -> "connection"
      [] n \in {"Authorization"}      -> "authorization"
      [] n \in {"Content-Type"}       -> "content-type"
      [] n \in {"Content-Length"}     -> "content-length"
      [] n \in {"Accept"}             -> "accept"
      [] n \in {"X-GhostLLM-App"}     -> "x-ghostllm-app"
      [] OTHER                        -> n

\* A JavaScript object with string keys: pairs <<key, value>> in insertion
\* order, keys distinct as written.  obj[k] = v
ObjSet(o, k, v) ==
    IF \E j \in 1..Len(o) : o[j][1] = k
    THEN [j \in 1..Len(o) |-> IF o[j][1] = k THEN <<k, v>> ELSE o[j]]
    ELSE Append(o, <<k, v>>)

\* { ...o, ...src }
RECURSIVE ObjSpread(_, _)
ObjSpread(o, src) ==
    IF src = <<>> THEN o
    ELSE ObjSpread(ObjSet(o, Head(src)[1], Head(src)[2]), Tail(src))

\* Headers.append: names fold to lower case, a repeated name joins its values
HeadersAppend(h, k, v) ==
    IF \E j \in 1..Len(h) : h[j][1] = Lower(k)
    THEN [j \in 1..Len(h) |->
             IF h[j][1] = Lower(k) THEN <<h[j][1], h[j][2] \o <<", ">> \o v>> ELSE h[j]]
    ELSE Append(h, <<Lower(k), v>>)

\* new Headers(init)
RECURSIVE HeadersNew(_, _)
HeadersNew(h, src) ==
    IF src = <<>> THEN h
    ELSE HeadersNew(HeadersAppend(h, Head(src)[1], Head(src)[2]), Tail(src))

\* Headers.set
HeadersSet(h, k, v) == ObjSet(h, Lower(k), v)

\* Node's ClientRequest: setHeader for every key of options.headers in
\* order; a name that differs only in case replaces the earlier one
NodeSetHeader(w, k, v) ==
    IF \E j \in 1..Len(w) : Lower(w[j][1]) = Lower(k)
    THEN [j \in 1..Len(w) |-> IF Lower(w[j][1]) = Lower(k) THEN <<k, v>> ELSE w[j]]
    ELSE Append(w, <<k, v>>)

RECURSIVE NodeHeaders(_, _)
NodeHeaders(w, obj) ==
    IF obj = <<>> THEN w
    ELSE NodeHeaders(NodeSetHeader(w, Head(obj)[1], Head(obj)[2]), Tail(obj))

NoBodyText == <<>>

ByteLength(b) == IF Len(b) = 2 THEN <<"2">> ELSE <<"n">>

Urls == { [hostname |-> "llm.home", port |-> "3000"] }

\* what OpenCode passes as init: method, headers, body
Inits(key) ==
    { [method |-> "", headers |-> <<>>, body |-> NoBodyText],
      [method |-> "POST", headers |-> << <<"Authorization", Bearer(key)>> >>,
       body |-> <<"{", "}">>],
      [method |-> "POST",
       headers |-> << <<"HOST", <<"llm.home", ":", "3000">> >>,
                      <<"connection", <<"keep-alive">> >>,
                      <<"authorization", <<"Bearer", " ", "old">> >> >>,
       body |-> <<"{", "}">>] }

Request(via, method, url, hdrs, b) ==
    [via |-> via, method |-> method, hostname |-> url.hostname, port |-> url.port,
     headers |-> hdrs, body |-> b]

\* http11Request with the caller's headers spread after Host and Connection
http11Request_mut(url, options) ==
    LET h1 == ObjSpread(<< <<"Host", <<url.hostname>> >>, <<"Connection", <<"close">> >> >>,
                        options.headers)
        h2 == IF options.body # NoBodyText
              THEN ObjSet(h1, "Content-Length", ByteLength(options.body))
              ELSE h1
    IN  Request("http11Request", options.method, url, NodeHeaders(<<>>, h2), options.body)

\* http11Request: the request Node's http module sends
http11Request(url, options) ==
    LET h1 == ObjSet(ObjSet(ObjSpread(<<>>, options.headers),
                            "Host", <<url.hostname>>),
                     "Connection", <<"close">>)
        h2 == IF options.body # NoBodyText
              THEN ObjSet(h1, "Content-Length", ByteLength(options.body))
              ELSE h1
    IN  Request("http11Request", options.method, url, NodeHeaders(<<>>, h2), options.body)

\* dymiumFetch after the token was read: default headers, the caller's
\* headers through new Headers(...).forEach, then Authorization
dymiumFetch(token, url, init) ==
    LET h0 == << <<"Content-Type", <<"application/json">> >>,
                 <<"Accept", <<"application/json, text/event-stream">> >> >>
        h1 == ObjSpread(h0, HeadersNew(<<>>, init.headers))
        h2 == ObjSet(h1, "Authorization", Bearer(token))
    IN  http11Request(url, [method  |-> IF init.method # "" THEN init.method ELSE "GET",
                            headers |-> h2,
                            body    |-> init.body])

\* the fetch wrapper adding its Authorization with headers.append
fetchWrapper_mut(token, url, init) ==
    LET h0 == HeadersNew(<<>>, init.headers)
        h1 == IF token # NoToken
              THEN HeadersAppend(h0, "Authorization", Bearer(token)) ELSE h0
    IN  Request("fetch", init.method, url, h1, init.body)

\* the fetch wrapper returned by the loader of the wrapper plugin
fetchWrapper(token, url, init) ==
    LET h0 == HeadersNew(<<>>, init.headers)
        h1 == IF token # NoToken THEN HeadersSet(h0, "Authorization", Bearer(token)) ELSE h0
    IN  Request("fetch", init.method, url, h1, init.body)

\* plugin(): OpenCode loads one of the two plugin sources
Plugin ==
    /\ version = "none"
    /\ \E v \in {"http11", "wrapper"} : version' = v
    /\ logLines' = Append(logLines, LogLine("Plugin initialized for project", "", NoDuration))
    /\ UNCHANGED <<tokenFile, authJson, apiKey, loads, sent, thrown,
                   sessionState, dateNow, lastEvent, handled, own>>

\* the Dymium Provider app rewrites the token file and auth.json
ProviderWrites ==
    /\ \E tf \in TokenFiles, aj \in AuthJsons :
          /\ tokenFile' = tf
          /\ authJson' = aj
    /\ UNCHANGED <<version, apiKey, loads, sent, thrown,
                   sessionState, dateNow, logLines, lastEvent, handled, own>>

\* auth.loader of the http11 plugin: starts the tracker, apiKey ""
LoaderHttp11 ==
    /\ version = "http11"
    /\ loads < MaxLoads
    /\ loads' = loads + 1
    /\ \E d \in Elapsed :
          LET r == loader(sessionState, dateNow + d)
          IN  /\ dateNow' = dateNow + d
              /\ sessionState' = r.st
              /\ logLines' = logLines \o r.log
    /\ apiKey' = <<>>
    /\ UNCHANGED <<version, tokenFile, authJson, sent, thrown, lastEvent, handled, own>>

\* auth.loader of the wrapper plugin: apiKey is the token read now, or
\* "dymium-pending"
LoaderWrapper ==
    /\ version = "wrapper"
    /\ loads < MaxLoads
    /\ loads' = loads + 1
    /\ apiKey' = IF resolveToken(tokenFile, authJson) # NoToken
                 THEN resolveToken(tokenFile, authJson) ELSE <<"dymium-pending">>
    /\ logLines' = Append(logLines, LogLine("Auth loader called", "", NoDuration))
    /\ UNCHANGED <<version, tokenFile, authJson, sent, thrown,
                   sessionState, dateNow, lastEvent, handled, own>>

\* OpenCode calls the fetch of the http11 plugin
FetchHttp11 ==
    /\ version = "http11"
    /\ loads > 0
    /\ Len(sent) + thrown < MaxRequests
    /\ \E url \in Urls, init \in Inits(apiKey) :
          LET token == getDymiumToken(authJson)
          IN  IF token = NoToken
              THEN /\ thrown' = thrown + 1
                   /\ logLines' = Append(logLines, LogLine("No dymium.key", "", NoDuration))
                   /\ UNCHANGED sent
              ELSE /\ sent' = Append(sent, dymiumFetch(token, url, init))
                   /\ logLines' = Append(logLines, LogLine("HTTP/1.1", init.method, NoDuration))
                   /\ UNCHANGED thrown
    /\ UNCHANGED <<version, tokenFile, authJson, apiKey, loads,
                   sessionState, dateNow, lastEvent, handled, own>>

\* OpenCode calls the fetch of the wrapper plugin
FetchWrapper ==
    /\ version = "wrapper"
    /\ loads > 0
    /\ Len(sent) + thrown < MaxRequests
    /\ \E url \in Urls, init \in Inits(apiKey) :
          LET token == resolveToken(tokenFile, authJson)
          IN  /\ sent' = Append(sent, fetchWrapper(token, url, init))
              /\ logLines' = logLines
                    \o (IF token = NoToken
                        THEN << LogLine("WARN: No token available for request", "", NoDuration) >>
                        ELSE <<>>)
                    \o << LogLine("Fetch", init.method, NoDuration) >>
    /\ UNCHANGED <<version, tokenFile, authJson, apiKey, loads, thrown,
                   sessionState, dateNow, lastEvent, handled, own>>

AuthInit ==
    /\ version = "none"
    /\ tokenFile = Missing
    /\ authJson = AuthFile("missing", <<>>, "")
    /\ apiKey = <<>>
    /\ loads = 0
    /\ sent = <<>>
    /\ thrown = 0

AuthNext ==
    /\ \/ Plugin
       \/ ProviderWrites
       \/ LoaderHttp11
       \/ LoaderWrapper
       \/ FetchHttp11
       \/ FetchWrapper
    /\ UNCHANGED streamVars

Init == StreamInit /\ TrackerInit /\ AuthInit

StreamSpec == Init /\ [][StreamNext]_vars

TrackerSpec == Init /\ [][TrackerNext]_vars

AuthSpec == Init /\ [][AuthNext]_vars

\* ------------------------------------------------------------ properties
JsonLines    == { k \in 1..Len(out) : out[k].line = "json" }
PhaseLines(p) == { k \in JsonLines : out[k].has_reasoning /\ out[k].phase = p }
ContentLines == { k \in JsonLines : out[k].has_content }
FinishLines  == { k \in JsonLines : out[k].finish_reason # "null" }

\* C1: all frames of one response carry one identical id.
C1_OneStreamId ==
    \A a, b \in JsonLines : out[a].id = out[b].id

Rank(l) ==
    IF l.line = "[DONE]" THEN 7
    ELSE IF l.finish_reason # "null" THEN 6
    ELSE IF l.has_content THEN 5
    ELSE CASE l.phase = "Securing"  -> 1
           [] l.phase = "Protected" -> 2
           [] l.phase = "Waiting"   -> 3
           [] l.phase = "Restoring" -> 4
           [] OTHER                 -> 0

C4_ProtectedIffFindings ==
    /\ \A k \in PhaseLines("Protected") : piiCount > 0 /\ out[k].count = piiCount
    /\ piiCount # -1 => (PhaseLines("Protected") # {} <=> piiCount > 0)
    /\ Cardinality(PhaseLines("Protected")) <= 1

C4_Witness ==
    /\ pc = "done"
    /\ piiCount = 1
    /\ \E k \in PhaseLines("Protected") : out[k].count = 1

\* C5: a Restoring frame is emitted iff a Protected frame was emitted
\* earlier in the stream.
C5_RestoringIffProtected ==
    /\ \A k \in PhaseLines("Restoring") : \E j \in PhaseLines("Protected") : j < k
    /\ (pc = "done" /\ ~callErr /\ PhaseLines("Protected") # {}) =>
          PhaseLines("Restoring") # {}

\* C6: when the Completion Client call fails after the Waiting frame, the
\* stream has no Restoring frame and no content frame, and the Waiting frame
\* is followed by the error status frame and then the terminal frame.
C6_FailureAfterWaiting ==
    callErr =>
       /\ PhaseLines("Restoring") = {}
       /\ ContentLines = {}
       /\ pc = "done" =>
             \E k \in PhaseLines("Waiting") :
                /\ k + 2 <= Len(out)
                /\ out[k + 1].has_reasoning /\ out[k + 1].phase = "Error"
                /\ out[k + 2].finish_reason = "stop"

\* C7: the content fragments, concatenated in emission order, are the
\* de-obfuscated answer.
RECURSIVE ConcatContent(_, _)
ConcatContent(lines, k) ==
    IF k > Len(lines) THEN <<>>
    ELSE (IF lines[k].line = "json" /\ lines[k].has_content
          THEN lines[k].content ELSE <<>>) \o ConcatContent(lines, k + 1)

C7_FragmentsReconstruct ==
    pc \in {"s8", "done"} => ConcatContent(out, 1) = finalContent

\* C8: no fragment boundary falls inside a multi-byte character.
OnBoundary(b, off) == off = 0 \/ off >= Len(b) \/ b[off + 1].k = 1

C8_CodepointBoundaries ==
    /\ \A n \in 0..(i \div ChunkSize) :
          OnBoundary(Utf8Bytes(finalContent), n * ChunkSize)
    /\ \A k \in ContentLines :
          \A j \in 1..Len(out[k].content) : out[k].content[j] # Replacement

\* C9: what the tracker records for a session, and the lines it logs for
\* it, are what the calls and events of that session alone produce.
Handle(st, now, ev) ==
    IF ev.type = "loader" THEN loader(st, now) ELSE event(st, now, ev)

C9_SessionsIsolated ==
    [][ handled' = handled + 1 =>
          LET alone == Handle(own[lastEvent'.session], dateNow', lastEvent')
          IN  /\ sessionState' = alone.st
              /\ SubSeq(logLines', Len(logLines) + 1, Len(logLines')) = alone.log ]_vars

\* C10: once a write failed because the peer is gone, nothing more is
\* written to the stream.
C10_NoWriteAfterFailedWrite ==
    \A a, b \in 1..Len(wrote) : a < b => wrote[a]

\* C11: a failure in a non-terminal state still closes the stream cleanly:
\* exactly one error status frame, then the terminal frame, then the
\* sentinel, and nothing of the pipeline after the failure.
C11_FailureClosesCleanly ==
    callErr =>
       /\ pc # "panicked"
       /\ PhaseLines("Restoring") = {}
       /\ ContentLines = {}
       /\ pc = "done" =>
             /\ Cardinality(PhaseLines("Error")) = 1
             /\ Len(out) >= 3
             /\ out[Len(out) - 2].has_reasoning /\ out[Len(out) - 2].phase = "Error"
             /\ out[Len(out) - 1].finish_reason = "stop"
             /\ out[Len(out)].line = "[DONE]"

C19_DeltaExclusive ==
    \A k \in JsonLines :
       /\ ~(out[k].has_reasoning /\ out[k].has_content)
       /\ out[k].has_reasoning => (out[k].phase # NoPhase /\ out[k].content = <<>>)
       /\ out[k].has_content => out[k].phase = NoPhase
       /\ out[k].finish_reason # "null" => (~out[k].has_reasoning /\ ~out[k].has_content)

C19_Witness ==
    /\ pc = "done"
    /\ \E k \in JsonLines : out[k].has_reasoning
    /\ \E k \in JsonLines : out[k].has_content
    /\ \E k \in JsonLines : out[k].finish_reason = "stop"

\* C20: every frame of a stream carries the same created timestamp.
C20_CreatedOnce ==
    \A a, b \in JsonLines : out[a].created = out[b].created

\* C12: mode selection is total and exclusive: ReasoningStream exactly when
\* streamRequested, reasoningEnabled and supportsStreaming all hold,
\* PassthroughStream when only reasoningEnabled is off, BufferedResponse
\* when streamRequested or supportsStreaming is off; never an error.
ExpectedMode(r) ==
    IF r.stream /\ r.flusher
    THEN (IF r.detectPII THEN "ReasoningStream" ELSE "PassthroughStream")
    ELSE "BufferedResponse"

C12_ModeSelectionTotal ==
    pc \notin {"recv", "start"} => mode = ExpectedMode(req)

\* C13: a transport without flush capability is detected before any
\* streaming header or frame is written, and the request is served as
\* BufferedResponse, never as an error.
C13_NoFlushFallsBack ==
    (pc # "recv" /\ ~req.flusher) =>
       /\ headers = {}
       /\ out = <<>>
       /\ mode \in {"pending", "BufferedResponse"}
       /\ pc # "panicked"

\* C14: BufferedResponse writes no SSE line, and the content it returns is
\* the concatenation of the content fragments the ReasoningStream run
\* emits for the same answer.
C14_BufferedEqualsStream ==
    /\ mode = "BufferedResponse" => (out = <<>> /\ headers = {})
    /\ pc = "returned" => body = CompleteBody(finalContent)
    /\ (pc = "done" /\ mode = "ReasoningStream") =>
          ConcatContent(out, 1) = CompleteBody(finalContent)

\* the values a request carries under a header name, in any letter case
HeaderValues(r, lname) ==
    [j \in { k \in 1..Len(r.headers) : Lower(r.headers[k][1]) = lname } |-> r.headers[j][2]]

HasHeader(r, lname, value) ==
    LET hv == HeaderValues(r, lname)
    IN  Cardinality(DOMAIN hv) = 1 /\ \A j \in DOMAIN hv : hv[j] = value

\* the token the loaded plugin finds on disk now
DiskToken ==
    IF version = "http11" THEN getDymiumToken(authJson)
    ELSE resolveToken(tokenFile, authJson)

\* C15: every request handed to the transport carries, as its single
\* Authorization header, "Bearer " followed by the token that is on disk
\* when the request is made; the token captured by the loader is not sent
\* once the disk holds something else.
C15_TokenReadFresh ==
    [][Len(sent') = Len(sent) + 1 =>
          /\ DiskToken # NoToken
          /\ HasHeader(sent'[Len(sent')], "authorization", Bearer(DiskToken))]_vars

\* C16: every request handed to the transport while auth.json holds an app
\* field carries an X-GhostLLM-App header whose value is that field.
C16_AppHeaderSent ==
    [][(Len(sent') = Len(sent) + 1 /\ authJson.state = "ok") =>
          HasHeader(sent'[Len(sent')], "x-ghostllm-app", <<authJson.app>>)]_vars

\* C17: every request issued by http11Request carries exactly one Host
\* header, equal to the URL's hostname without the port, and exactly one
\* Connection header, equal to "close".
C17_HostAndConnectionForced ==
    \A j \in 1..Len(sent) :
        sent[j].via = "http11Request" =>
            /\ HasHeader(sent[j], "host", <<sent[j].hostname>>)
            /\ HasHeader(sent[j], "connection", <<"close">>)

\* a request whose caller supplied host and connection headers of its own:
\* Host sits in the slot the caller's header opened, right after the two
\* default headers, and Connection in the next one
C17_Witness ==
    \E j \in 1..Len(sent) :
        /\ sent[j].via = "http11Request"
        /\ Len(sent[j].headers) >= 4
        /\ sent[j].headers[3] = <<"Host", <<sent[j].hostname>> >>
        /\ sent[j].headers[4] = <<"Connection", <<"close">> >>

IsStatus(l) == l.line = "json" /\ l.has_reasoning

\* the status messages written so far, in order: the message and the number
\* formatted into it
StatusTexts ==
    LET fs == SelectSeq(out, IsStatus)
    IN  [k \in 1..Len(fs) |-> <<fs[k].phase, fs[k].count>>]

\* the status messages of a run with n findings
ExpectedTexts(n) ==
    << <<"Securing", 0>> >>
    \o (IF n > 0 THEN << <<"Protected", n>> >> ELSE <<>>)
    \o << <<"Waiting", 0>>, <<"Restoring", 0>> >>

\* C21: the status messages of a run are those fixed by the findings count
\* alone, up to the point the run has reached, whatever the findings
\* mapping holds, whatever answer is restored and whatever err.Error() of a
\* failed call says; once the call has returned, failed or not, the run has
\* emitted all of them and nothing else.
C21_StatusTextsPublic ==
    LET n == IF piiCount = -1 THEN 0 ELSE piiCount
    IN  /\ Len(StatusTexts) <= Len(ExpectedTexts(n))
        /\ \A k \in 1..Len(StatusTexts) : StatusTexts[k] = ExpectedTexts(n)[k]
        /\ (mode = "ReasoningStream" /\ pc \in {"s7", "loop", "s8", "done", "panicked"}) =>
              StatusTexts = ExpectedTexts(piiCount)

\* a failed call with an error text, after findings were replaced, and the
\* run went on to its end
C21_Witness ==
    /\ mode = "ReasoningStream"
    /\ pc \in {"done", "panicked"}
    /\ errText # ""
    /\ piiMap # <<>>

FailedWrite == \E k \in 1..Len(wrote) : ~wrote[k]

\* C22: once a write has failed because the peer is gone, the upstream call
\* in flight does not complete with an answer, no restoration is started,
\* and the handler does not panic.
C22_CancelledOnDisconnect ==
    [][FailedWrite =>
          /\ (pc = "calling" => response' # "ok")
          /\ (pc = "s7" => calls' = calls)
          /\ pc' # "panicked"]_vars

CallsOf(op) == { k \in 1..Len(calls) : calls[k].op = op }

\* is a frame of this phase among the first n lines written
WrittenBy(phase, n) == \E k \in PhaseLines(phase) : k <= n

\* C23: in a ReasoningStream run the Securing frame is written before
\* obfuscate is called, the Waiting frame before CallCompletion is invoked,
\* and the Restoring frame after CallCompletion returned and before
\* deobfuscate is called.
C23_StatusBeforeStep ==
    mode = "ReasoningStream" =>
        /\ \A c \in CallsOf("obfuscate") : WrittenBy("Securing", calls[c].at)
        /\ \A c \in CallsOf("CallCompletion") : WrittenBy("Waiting", calls[c].at)
        /\ \A c \in CallsOf("deobfuscate") : WrittenBy("Restoring", calls[c].at)
        /\ \A k \in PhaseLines("Restoring") :
              /\ response # "none"
              /\ \A c \in CallsOf("CallCompletion") : k > calls[c].at

C23_Witness ==
    /\ mode = "ReasoningStream"
    /\ pc = "done"
    /\ CallsOf("obfuscate") # {}
    /\ CallsOf("CallCompletion") # {}
    /\ CallsOf("deobfuscate") # {}

RECURSIVE Durations(_)
\* how many of the log lines carry a duration
Durations(log) ==
    IF log = <<>> THEN 0
    ELSE (IF Head(log).dur # NoDuration THEN 1 ELSE 0) + Durations(Tail(log))

\* C27: after session.idle the tracker is (not processing, no start time,
\* "idle"), after session.error (not processing, no start time, "error"),
\* and the event logs one duration line when a start time was set before
\* it and none otherwise.
C27_IdleAndErrorReset ==
    [][(handled' = handled + 1 /\ lastEvent'.type \in {"session.idle", "session.error"}) =>
          /\ sessionState' =
                [requestStartTime |-> Null,
                 lastStatus |-> IF lastEvent'.type = "session.idle" THEN "idle" ELSE "error",
                 isProcessing |-> FALSE]
          /\ Durations(logLines') - Durations(logLines) =
                IF sessionState.requestStartTime # Null THEN 1 ELSE 0]_vars

\* a started request was closed by session.idle or session.error and its
\* duration is the last line of the log
C27_Witness ==
    /\ lastEvent.type \in {"session.idle", "session.error"}
    /\ logLines # <<>>
    /\ logLines[Len(logLines)].dur # NoDuration

ProcessingIffStarted ==
    sessionState.isProcessing <=> (sessionState.requestStartTime # Null)

\* C28: in every reachable state isProcessing is true exactly when
\* requestStartTime is set, and session.status, message.part.updated and
\* unrecognised events leave both fields as they were.
C28_ProcessingIffStarted ==
    [][/\ ProcessingIffStarted
       /\ ProcessingIffStarted'
       /\ (/\ handled' = handled + 1
           /\ lastEvent'.type \notin {"loader", "session.created", "session.idle",
                                      "session.error"})
          => /\ sessionState'.isProcessing = sessionState.isProcessing
             /\ sessionState'.requestStartTime = sessionState.requestStartTime]_vars

\* a status event arrived while a request was being processed
C28_Witness ==
    /\ lastEvent.type = "session.status"
    /\ sessionState.isProcessing
    /\ sessionState.requestStartTime # Null

\* C24: a request made while a token can be read carries exactly one
\* Authorization header, in whatever case, and its value is "Bearer "
\* followed by the token read for that request.
C24_AuthorizationOverwritten ==
    [][(Len(sent') = Len(sent) + 1 /\ DiskToken # NoToken) =>
          HasHeader(sent'[Len(sent')], "authorization", Bearer(DiskToken))]_vars

\* the wrapper sent a request whose caller had put an Authorization header
\* of its own in the third slot, and the slot now holds another value
C24_Witness ==
    \E j \in 1..Len(sent) :
        /\ sent[j].via = "fetch"
        /\ Len(sent[j].headers) >= 3
        /\ sent[j].headers[3][1] = "authorization"
        /\ sent[j].headers[3][2] # <<"Bearer", " ", "old">>

\* C25: no request is handed to the transport while no token can be read.
C25_NoTokenNoRequest ==
    [][Len(sent') = Len(sent) + 1 => DiskToken # NoToken]_vars

\* the trimmed content of the token file, if it is there and not blank
FileToken == IF tokenFile = Missing THEN NoToken ELSE Trim(tokenFile)

\* the trimmed dymium.key of auth.json, if it is a string and not blank
KeyToken ==
    IF authJson.state = "ok" /\ IsString(authJson.key) THEN Trim(authJson.key) ELSE NoToken

\* C26: the loader of the wrapper plugin, which calls resolveToken, gets
\* the trimmed token file when that is not blank, otherwise the trimmed
\* auth.json key when that is a string and not blank, otherwise null (and
\* then returns "dymium-pending"); the result has no whitespace around it.
C26_ResolveTokenOrder ==
    [][(loads' = loads + 1 /\ version = "wrapper") =>
          /\ FileToken # NoToken => apiKey' = FileToken
          /\ (FileToken = NoToken /\ KeyToken # NoToken) => apiKey' = KeyToken
          /\ (FileToken = NoToken /\ KeyToken = NoToken) => apiKey' = <<"dymium-pending">>
          /\ Trim(apiKey') = apiKey']_vars

\* the wrapper's loader fell back to a padded auth.json key and got it trimmed
C26_Witness ==
    /\ version = "wrapper"
    /\ loads > 0
    /\ FileToken = NoToken
    /\ authJson.key = <<" ", "t3">>
    /\ apiKey = <<"t3">>

====
